---- MODULE Spec2Model ----
(***************************************************************************)
(* Groups for a Quill editor: paired grouper embeds (open id = -n, close   *)
(* id = +n) in a linear document, the Grouper deletion protocol, the       *)
(* GroupsModule queries and wrapSelection, the Group value class and its   *)
(* navigation, the redraws of the overlay module (drawGroups), and the     *)
(* Region of the screen that a group covers.                               *)
(*                                                                         *)
(* The host document is a sequence of leaves of length 1: a text character *)
(* (0) or a grouper blot, named by its object handle (1..NumHandles).      *)
(* Document indices are 0-based as in quill.getIndex().                    *)
(***************************************************************************)
EXTENDS Integers, Sequences, FiniteSets, TLC

\* ---------------------------------------------------------------- bounds
MaxLen == 5         \* leaves (characters and groupers) in the document
MaxBefore == 5      \* SpecGroup: text characters before the group
MaxInside == 4      \* SpecGroup: text characters inside the group
MaxNavLen == 6      \* SpecNav: leaves in the document
MaxDrawLen == 4     \* SpecDraw: leaves in the document
MaxTimers == 2      \* SpecDraw: pending setTimeout callbacks
MaxFairLen == 3     \* SpecDrawFair: leaves in the document
MaxIdsLen == 5      \* SpecIds: leaves in the document
MaxX == 3           \* SpecRegion: pixels from the left edge to a grouper
MaxDrop == 6        \* SpecRegion: pixels from the first line down to the last

NumHandles == IF MaxLen > MaxNavLen THEN MaxLen ELSE MaxNavLen
Handles == 1 .. NumHandles
Text == 0
NoSel == [index |-> -1, length |-> 0]          \* getSelection() === null
NullObj == [id |-> 0, partner |-> 0, beingDeleted |-> FALSE, removed |-> 0]
NoMouse == [x |-> -1, y |-> -1]                \* new ScreenPoint( -1, -1 )
MousePoints == {[x |-> 1, y |-> 1], [x |-> 2, y |-> 1]}

VARIABLES
    doc,    \* quill.scroll leaves in document order
    objs,   \* Grouper objects: id, _partner, beingDeleted, and the number of
            \* times the inherited deleteAt removed the blot
    sel,    \* quill.getSelection(): [index, length] or NoSel
    last,   \* the operation that produced this state, with its arguments
    overlay,        \* quill.getModule( 'overlay' ) gave GroupsModule a module
    lastMousePos,   \* GroupsModule.lastMousePos
    timers,         \* setTimeout( updatePict, 0 ) callbacks not yet run
    draws   \* what each drawGroups() call of the latest event read and drew

ui == <<overlay, lastMousePos, timers, draws>>
vars == <<doc, objs, sel, last, overlay, lastMousePos, timers, draws>>

\* ------------------------------------------------------------ host model
Abs(n) == IF n < 0 THEN -n ELSE n

IsGrouper(x) == x # Text

\* quill.insertEmbed / insertText: a leaf of length 1 goes in at index
InsertAt(d, index, x) ==
    [k \in 1 .. Len(d) + 1 |->
        IF k <= index THEN d[k] ELSE IF k = index + 1 THEN x ELSE d[k - 1]]

\* Embed.deleteAt (super.deleteAt): the blot leaves the document
RemoveLeaf(d, h) == SelectSeq(d, LAMBDA x : x # h)

\* quill.getIndex( blot )
RECURSIVE IndexFrom(_, _, _)
IndexFrom(d, h, k) ==
    IF k > Len(d) THEN -1
    ELSE IF d[k] = h THEN k - 1
    ELSE IndexFrom(d, h, k + 1)

getIndex(d, h) == IndexFrom(d, h, 1)

InDoc(d, h) == \E k \in 1 .. Len(d) : d[k] = h

\* quill.scroll.descendants( Grouper ), document order
allGroupers(d) == SelectSeq(d, IsGrouper)

MarkerCount(d) == Len(allGroupers(d))

\* the smallest handle not in the document names the next blot object
FreshHandle(d) == CHOOSE h \in Handles :
    /\ ~InDoc(d, h)
    /\ \A g \in Handles : ~InDoc(d, g) => h <= g

\* a detached blot is referenced by nothing but its detached partner; it is
\* gone when the next event is handled
Collect(d, o) == [h \in Handles |-> IF InDoc(d, h) THEN o[h] ELSE NullObj]

\* ---------------------------------------------------------------- Grouper
isOpen(o, h) == o[h].id < 0
isClose(o, h) == ~isOpen(o, h)

\* Array.prototype.find over the descendants: first match or 0 (undefined)
RECURSIVE FindId(_, _, _, _)
FindId(d, o, id, k) ==
    IF k > Len(d) THEN 0
    ELSE IF IsGrouper(d[k]) /\ o[d[k]].id = id THEN d[k]
    ELSE FindId(d, o, id, k + 1)

\* Grouper.partner(): the cache is filled on both sides on first lookup
partnerLost(S, h) == [st |-> S, res |-> 0]

partner(S, h) ==
    IF S.objs[h].partner = 0
    THEN LET result == FindId(S.doc, S.objs, -S.objs[h].id, 1) IN
         IF result # 0
         THEN [st |-> [S EXCEPT !.objs = [@ EXCEPT ![h].partner = result,
                                                  ![result].partner = h]],
               res |-> result]
         ELSE [st |-> S, res |-> 0]
    ELSE [st |-> S, res |-> S.objs[h].partner]

\* Grouper.deleteAt; S.calls lists what the calls of one deletion did, in
\* order: "skip" (the flag was set: return), "flag", "partner" (look the
\* partner up), "remove" (the inherited deleteAt) and "call" (of the
\* partner's deleteAt, by this grouper)
Did(S, ev, h) == [S EXCEPT !.calls = Append(@, [ev |-> ev, on |-> h])]

RECURSIVE deleteAt(_, _)
deleteAtAlone(S, h) ==
    IF S.objs[h].beingDeleted THEN Did(S, "skip", h)
    ELSE LET S1 == Did(Did(S, "flag", h), "remove", h)
         IN [S1 EXCEPT !.doc = RemoveLeaf(@, h),
                       !.objs = [@ EXCEPT ![h].beingDeleted = TRUE,
                                          ![h].removed = @ + 1]]

deleteAtUnflagged(S, h) ==
    IF S.objs[h].removed > 1 THEN Did(S, "skip", h)
    ELSE LET p == partner(Did(Did(S, "flag", h), "partner", h), h)
             S2 == [Did(p.st, "remove", h)
                       EXCEPT !.doc = RemoveLeaf(@, h),
                              !.objs = [@ EXCEPT ![h].removed = @ + 1]]
         IN IF p.res # 0 THEN deleteAt(Did(S2, "call", h), p.res) ELSE S2

deleteAt(S, h) ==
    IF S.objs[h].beingDeleted THEN Did(S, "skip", h)
    ELSE LET S1 == [Did(S, "flag", h)
                       EXCEPT !.objs = [@ EXCEPT ![h].beingDeleted = TRUE]]
             p == partner(Did(S1, "partner", h), h)
             S2 == [Did(p.st, "remove", h)
                       EXCEPT !.doc = RemoveLeaf(@, h),
                              !.objs = [@ EXCEPT ![h].removed = @ + 1]]
         IN IF p.res # 0 THEN deleteAt(Did(S2, "call", h), p.res) ELSE S2

\* ----------------------------------------------------------- GroupsModule
\* idsContaining( index ) (idsOpenAt in the older module): stack simulation
\* over the groupers located before index; Array.pop() on [] does nothing
PopUnderflows(st) == IF Len(st) = 0 THEN <<0>> ELSE SubSeq(st, 1, Len(st) - 1)

Pop(st) == IF Len(st) = 0 THEN st ELSE SubSeq(st, 1, Len(st) - 1)

RECURSIVE idsLoop(_, _, _, _, _)
idsLoop(d, o, index, k, result) ==
    IF k > Len(d) THEN result
    ELSE IF ~IsGrouper(d[k]) THEN idsLoop(d, o, index, k + 1, result)
    ELSE IF k - 1 >= index THEN result                             \* break
    ELSE IF isOpen(o, d[k])
         THEN idsLoop(d, o, index, k + 1, Append(result, o[d[k]].id))
         ELSE idsLoop(d, o, index, k + 1, Pop(result))

idsNoPop(d, o, index) ==
    LET opens == SelectSeq(SubSeq(d, 1, IF index < Len(d) THEN index ELSE Len(d)),
                           LAMBDA x : IsGrouper(x) /\ isOpen(o, x))
    IN [k \in 1 .. Len(opens) |-> o[opens[k]].id]

idsContaining(d, o, index) == idsLoop(d, o, index, 1, << >>)

\* nextAvailableId()
usedIds(d, o) == {o[d[k]].id : k \in {j \in 1 .. Len(d) : IsGrouper(d[j])}}

RECURSIVE nextIdLoop(_, _)
nextIdLoop(used, possibleAnswer) ==
    IF possibleAnswer \in used THEN nextIdLoop(used, possibleAnswer + 1)
    ELSE possibleAnswer

nextIdCounting(d, o) == Cardinality({n \in usedIds(d, o) : n > 0}) + 1

nextAvailableId(d, o) == nextIdLoop(usedIds(d, o), 1)

\* `${array}`: Array.prototype.toString joins Number.prototype.toString of
\* the elements with ","; a string is a sequence of characters
Digit(n) == <<"0", "1", "2", "3", "4", "5", "6", "7", "8", "9">>[n + 1]

RECURSIVE NatToStr(_)
NatToStr(n) == IF n < 10 THEN <<Digit(n)>>
               ELSE NatToStr(n \div 10) \o <<Digit(n % 10)>>

NumToStr(n) == IF n < 0 THEN <<"-">> \o NatToStr(-n) ELSE NatToStr(n)

RECURSIVE ArrayToStr(_)
ArrayToStr(a) ==
    IF Len(a) = 0 THEN << >>
    ELSE IF Len(a) = 1 THEN NumToStr(a[1])
    ELSE NumToStr(a[1]) \o <<",">> \o ArrayToStr(Tail(a))

\* the test that guards wrapSelection(): the two stacks, as strings
stacksNotCompared(d, o, start, length) == FALSE

stacksDiffer(d, o, start, length) ==
    ArrayToStr(idsContaining(d, o, start))
        # ArrayToStr(idsContaining(d, o, start + length))

\* ------------------------------------------------------------------ Group
\* new Group( grouper ): open = grouper.getOpen(), close = grouper.getClose(),
\* id = close.id; reading a member of an undefined partner throws
Group(S, grouper) ==
    LET p == partner(S, grouper).res
        open == IF isOpen(S.objs, grouper) THEN grouper ELSE p
        close == IF isOpen(S.objs, grouper) THEN p ELSE grouper
    IN [open |-> open, close |-> close,
        id |-> IF close = 0 THEN 0 ELSE S.objs[close].id,
        threw |-> (open = 0 \/ close = 0)]

\* Group.indices()
indices(d, g) ==
    [beforeOpen |-> getIndex(d, g.open),
     afterOpen |-> getIndex(d, g.open) + 1,
     beforeClose |-> getIndex(d, g.close),
     afterClose |-> getIndex(d, g.close) + 1]

\* JavaScript values: a number, or undefined
Num(n) == [def |-> TRUE, v |-> n]
Undefined == [def |-> FALSE, v |-> 0]

\* obj[key]: a property the object does not have reads as undefined
Prop(obj, key) == IF key \in DOMAIN obj THEN Num(obj[key]) ELSE Undefined

\* a < b and a == b on numbers and undefined: undefined converts to NaN
\* under <, and equals only undefined (or null) under ==
jsLt(a, b) == a.def /\ b.def /\ a.v < b.v
jsEq(a, b) == IF a.def /\ b.def THEN a.v = b.v ELSE a.def = b.def

\* Group.relativePosition( index )
relativePosition(d, g, index) ==
    LET ind == indices(d, g)
        i == Num(index)
    IN IF jsLt(i, Prop(ind, "0")) THEN 0
       ELSE IF jsEq(i, Prop(ind, "0")) THEN 1
       ELSE IF jsEq(i, Prop(ind, "1")) THEN 2
       ELSE IF jsLt(Prop(ind, "1"), i) /\ jsLt(i, Prop(ind, "2")) THEN 3
       ELSE IF jsEq(i, Prop(ind, "3")) THEN 4
       ELSE IF jsEq(i, Prop(ind, "5")) THEN 5
       ELSE 6

\* Group.contains( other )
containsLoose(d, g, other) ==
    LET mine == indices(d, g)
        theirs == indices(d, other)
    IN mine.beforeOpen <= theirs.beforeOpen
           /\ mine.afterClose > theirs.beforeClose

contains(d, g, other) ==
    LET mine == indices(d, g)
        theirs == indices(d, other)
    IN mine.beforeOpen < theirs.beforeOpen
           /\ mine.afterClose > theirs.beforeClose

\* findAll( predicate ) with the predicate of pairWithId( id )
pairWithId(d, o, id) == SelectSeq(d, LAMBDA x : IsGrouper(x) /\ o[x].id = id)

\* groupWithId( id ): a group, or undefined (threw and open = close = 0 mark
\* the two ways of not getting one)
NoGroup == [open |-> 0, close |-> 0, id |-> 0, threw |-> FALSE]

groupWithIdUnguarded(S, id) ==
    LET groupers == pairWithId(S.doc, S.objs, id) IN
    IF Len(groupers) > 0 THEN Group(S, groupers[1])
    ELSE [NoGroup EXCEPT !.threw = TRUE]

groupWithId(S, id) ==
    LET groupers == pairWithId(S.doc, S.objs, id) IN
    IF Len(groupers) > 0 THEN Group(S, groupers[1]) ELSE NoGroup

\* allGroups(): one Group per open grouper, in document order
allGroups(S) ==
    LET opens == SelectSeq(S.doc, LAMBDA x : IsGrouper(x) /\ isOpen(S.objs, x))
    IN [k \in 1 .. Len(opens) |-> Group(S, opens[k])]

\* predicates handed to findAll / find / findLast: a test on the grouper
\* (open, close, or none) and a test on the number passed as second argument
\* (i < index, i >= index, or none)
Holds(p, o, g, i) ==
    /\ CASE p.marker = "open" -> isOpen(o, g)
         [] p.marker = "close" -> isClose(o, g)
         [] OTHER -> TRUE
    /\ CASE p.cmp = "lt" -> i < p.index
         [] p.cmp = "ge" -> i >= p.index
         [] OTHER -> TRUE

\* findAll( predicate ): the predicate gets quill.getIndex( g )
findAll(d, o, p) ==
    SelectSeq(allGroupers(d), LAMBDA g : Holds(p, o, g, getIndex(d, g)))

\* find( predicate ): the predicate gets the loop counter i; 0 is undefined
RECURSIVE findLoop(_, _, _, _)
findLoop(all, o, p, i) ==
    IF ~(i < Len(all)) THEN 0
    ELSE IF Holds(p, o, all[i + 1], i) THEN all[i + 1]
    ELSE findLoop(all, o, p, i + 1)

find(d, o, p) == findLoop(allGroupers(d), o, p, 0)

\* findLast( predicate ): the same loop from the end
RECURSIVE findLastLoop(_, _, _, _)
findLastLoop(all, o, p, i) ==
    IF ~(i >= 0) THEN 0
    ELSE IF Holds(p, o, all[i + 1], i) THEN all[i + 1]
    ELSE findLastLoop(all, o, p, i - 1)

findLast(d, o, p) ==
    LET all == allGroupers(d) IN findLastLoop(all, o, p, Len(all) - 1)

\* the state after new Group( ... ) returned g: the constructor's partner
\* lookup has filled the pair's partner cache
made(S, g) == IF g.open # 0 /\ g.close # 0 THEN partner(S, g.open).st ELSE S

\* groupAround( index ): [st, res], res = NoGroup for undefined
groupAroundOutermost(S, index) ==
    LET openIds == idsContaining(S.doc, S.objs, index)
        g == IF Len(openIds) > 0 THEN groupWithId(S, openIds[1]) ELSE NoGroup
    IN [st |-> made(S, g), res |-> g]

groupAround(S, index) ==
    LET openIds == idsContaining(S.doc, S.objs, index)
        g == IF Len(openIds) > 0
             THEN groupWithId(S, openIds[Len(openIds)]) ELSE NoGroup
    IN [st |-> made(S, g), res |-> g]

\* groupBefore( index )
groupBefore(S, index) ==
    LET close == findLast(S.doc, S.objs,
                          [marker |-> "close", cmp |-> "lt", index |-> index])
        g == IF close # 0 THEN Group(S, close) ELSE NoGroup
    IN [st |-> made(S, g), res |-> g]

\* groupAtOrAfter( index )
groupAtOrAfter(S, index) ==
    LET open == find(S.doc, S.objs,
                     [marker |-> "open", cmp |-> "ge", index |-> index])
        g == IF open # 0 THEN Group(S, open) ELSE NoGroup
    IN [st |-> made(S, g), res |-> g]

\* Group.equals( other )
equalsAlways(g, other) == TRUE

equals(g, other) == g.open = other.open

parentFromInside(S, g) == groupAround(S, indices(S.doc, g).afterOpen)

nextFromInside(S, g) == groupAtOrAfter(S, indices(S.doc, g).afterOpen)

\* Group.parent(), previous(), next()
parent(S, g) == groupAround(S, indices(S.doc, g).beforeOpen)
previous(S, g) == groupBefore(S, indices(S.doc, g).beforeOpen)
next(S, g) == groupAtOrAfter(S, indices(S.doc, g).afterClose)

\* Group.firstChild()
firstChildUnfiltered(S, g) == groupAtOrAfter(S, indices(S.doc, g).afterOpen)

firstChild(S, g) ==
    LET r == groupAtOrAfter(S, indices(S.doc, g).afterOpen) IN
    IF r.res # NoGroup /\ contains(S.doc, g, r.res) THEN r
    ELSE [st |-> r.st, res |-> NoGroup]

\* Group.children(): the while loop, child being the group under test
RECURSIVE childrenLoop(_, _, _, _)
childrenLoop(S, g, child, result) ==
    IF child = NoGroup THEN [st |-> S, res |-> result]
    ELSE LET n == next(S, child) IN
         IF n.res # NoGroup /\ ~contains(S.doc, g, n.res)
         THEN [st |-> n.st, res |-> Append(result, child)]          \* break
         ELSE childrenLoop(n.st, g, n.res, Append(result, child))

children(S, g) ==
    LET first == firstChild(S, g) IN childrenLoop(first.st, g, first.res, << >>)

\* ------------------------------------------------- drawing on the overlay
\* the state after the constructors of the Groups in gs ran
RECURSIVE madeAll(_, _)
madeAll(S, gs) ==
    IF Len(gs) = 0 THEN S ELSE madeAll(made(S, Head(gs)), Tail(gs))

\* what a document looks like to a reader: the id of each grouper, 0 for text
Seen(S) == [k \in DOMAIN S.doc |->
              IF IsGrouper(S.doc[k]) THEN S.objs[S.doc[k]].id ELSE 0]

\* drawGroups( context ): the record says which mouse position, selection
\* and document the call read, which groups it stroked the outline of, and
\* whether a Group constructor threw, and what the canvas held when the call
\* began
drawGroups(S) ==
    LET mouse == S.lastMousePos
        selection == S.sel
        inner == IF selection # NoSel THEN groupAround(S, selection.index)
                 ELSE [st |-> S, res |-> NoGroup]
        groups == allGroups(inner.st)
        stroked == SelectSeq(groups, LAMBDA group :
                      inner.res # NoGroup /\ equals(inner.res, group))
    IN [madeAll(inner.st, groups) EXCEPT !.draws = Append(@,
            [mouse |-> mouse, sel |-> selection, seen |-> Seen(S),
             outlined |-> stroked, canvas |-> S.canvas,
             threw |-> \E k \in DOMAIN groups : groups[k].threw])]

\* context.clearRect( 0, 0, width, height )
clearRect(S) == [S EXCEPT !.canvas = << >>]

redrawOver(S) == drawGroups(S)

\* OverlayModule.redraw(): the canvas is cleared, then the 'draw' event
\* goes to the handler that the GroupsModule constructor registered
redraw(S) == drawGroups(clearRect(S))

\* the overlay's listeners for 'selection-change', 'mousemove' and 'scroll'
updatePict(S) == redraw(S)

\* ResizeObserver callback
updateSize(S) == redraw(S)

\* the overlay's 'text-change' listener: setTimeout( updatePict, 0 )
onTextChangeNow(S) == updatePict(S)

onTextChange(S) == [S EXCEPT !.timers = @ + 1]

\* the editor emits 'text-change' to its listeners before the call that
\* changed the text returns
emitTextChange(S) == IF S.overlay THEN onTextChange(S) ELSE S

\* quill.insertEmbed( index, 'grouper', { id } ): Quill constructs a new
\* Grouper( node, value ), which stores value.id
insertEmbed(S, index, id) ==
    LET h == FreshHandle(S.doc) IN
    emitTextChange(
        [S EXCEPT !.doc = InsertAt(@, index, h),
                  !.objs = [@ EXCEPT ![h] = [NullObj EXCEPT !.id = id]]])

\* the editor emits 'selection-change' to its listeners before the call that
\* changed the selection returns
emitSelectionChange(S) == IF S.overlay THEN updatePict(S) ELSE S

\* quill.setSelection( index, length ), and the user's cursor movements
setSelection(S, range) ==
    IF range = S.sel THEN S ELSE emitSelectionChange([S EXCEPT !.sel = range])

\* wrapSelection(): S carries doc, objs and sel; the result also says
\* whether the call went through and which id it used
wrapSelectionUnshifted(S) ==
    IF S.sel = NoSel THEN [st |-> S, ok |-> FALSE, id |-> 0]
    ELSE LET start == S.sel.index
             length == S.sel.length
         IN IF stacksDiffer(S.doc, S.objs, start, length)
            THEN [st |-> S, ok |-> FALSE, id |-> 0]
            ELSE LET id == nextAvailableId(S.doc, S.objs)
                     S1 == insertEmbed(S, start, -id)
                     S2 == insertEmbed(S1, start + length, id)
                 IN [st |-> setSelection(S2, [index |-> start + 1,
                                                  length |-> length]),
                     ok |-> TRUE, id |-> id]

wrapSelectionKeepsSelection(S) ==
    IF S.sel = NoSel THEN [st |-> S, ok |-> FALSE, id |-> 0]
    ELSE LET start == S.sel.index
             length == S.sel.length
         IN IF stacksDiffer(S.doc, S.objs, start, length)
            THEN [st |-> S, ok |-> FALSE, id |-> 0]
            ELSE LET id == nextAvailableId(S.doc, S.objs)
                     S1 == insertEmbed(S, start, -id)
                     S2 == insertEmbed(S1, start + 1 + length, id)
                 IN [st |-> S2, ok |-> TRUE, id |-> id]

wrapSelection(S) ==
    IF S.sel = NoSel THEN [st |-> S, ok |-> FALSE, id |-> 0]
    ELSE LET start == S.sel.index
             length == S.sel.length
         IN IF stacksDiffer(S.doc, S.objs, start, length)
            THEN [st |-> S, ok |-> FALSE, id |-> 0]
            ELSE LET id == nextAvailableId(S.doc, S.objs)
                     S1 == insertEmbed(S, start, -id)
                     S2 == insertEmbed(S1, start + 1 + length, id)
                 IN [st |-> setSelection(S2, [index |-> start + 1,
                                                  length |-> length]),
                     ok |-> TRUE, id |-> id]

\* ---------------------------------------------------------------- actions
Cur == [doc |-> doc, objs |-> Collect(doc, objs), sel |-> sel,
        overlay |-> overlay, lastMousePos |-> lastMousePos, timers |-> timers,
        draws |-> << >>, calls |-> << >>, canvas |-> <<"earlier drawings">>]

\* the event handler has returned, leaving the editor and the modules as S
Becomes(S) ==
    /\ doc' = S.doc
    /\ objs' = S.objs
    /\ sel' = S.sel
    /\ overlay' = S.overlay
    /\ lastMousePos' = S.lastMousePos
    /\ timers' = S.timers
    /\ draws' = S.draws

\* the longest document of this run
DocBound == IF overlay THEN MaxDrawLen ELSE MaxLen

Idle ==
    /\ lastMousePos = NoMouse
    /\ timers = 0
    /\ draws = << >>

Init ==
    /\ doc = << >>
    /\ objs = [h \in Handles |-> NullObj]
    /\ sel = NoSel
    /\ last = [op |-> "init"]
    /\ overlay = FALSE
    /\ Idle

\* the toolbar button: wrapSelection()
\* (a call that would go through is left out when the document is full)
WrapSelection ==
    /\ \/ Len(doc) + 2 <= DocBound /\ timers + 2 <= MaxTimers
       \/ sel = NoSel
       \/ stacksDiffer(doc, objs, sel.index, sel.length)
    /\ LET r == wrapSelection(Cur) IN
       /\ Becomes(r.st)
       /\ last' = [op |-> "wrapSelection", ok |-> r.ok, id |-> r.id]

\* typing a character at index
InsertText ==
    /\ Len(doc) < DocBound
    /\ timers < MaxTimers
    /\ \E index \in 0 .. Len(doc) :
        LET S1 == emitTextChange([Cur EXCEPT !.doc = InsertAt(doc, index, Text)])
        IN /\ Becomes(setSelection(S1, [index |-> index + 1, length |-> 0]))
           /\ last' = [op |-> "insertText"]

\* the host deletes the leaves at index .. index+length-1: text leaves go,
\* and every grouper in the range gets deleteAt( 0, 1 ), in document order
RECURSIVE deleteEach(_, _)
deleteEach(S, hs) ==
    IF Len(hs) = 0 THEN S ELSE deleteEach(deleteAt(S, Head(hs)), Tail(hs))

DropText(d, index, length) ==
    SubSeq(d, 1, index)
        \o SelectSeq(SubSeq(d, index + 1, index + length), IsGrouper)
        \o SubSeq(d, index + length + 1, Len(d))

DeleteText ==
    /\ timers < MaxTimers
    /\ \E index \in 0 .. Len(doc) - 1 :
       \E length \in 1 .. Len(doc) - index :
        LET range == SubSeq(doc, index + 1, index + length)
            hit == SelectSeq(range, IsGrouper)
            S1 == [Cur EXCEPT !.doc = DropText(doc, index, length)]
            S2 == emitTextChange(deleteEach(S1, hit))
            gone == {k \in 1 .. index : doc[k] # Text /\ ~InDoc(S2.doc, doc[k])}
        IN /\ Becomes(setSelection(S2, [index |-> index - Cardinality(gone),
                                        length |-> 0]))
           /\ last' = [op |-> "deleteText",
                       hit |-> {hit[k] : k \in 1 .. Len(hit)},
                       calls |-> S2.calls]

\* the user moves the cursor or selects a range, or the editor loses focus
SetSelection ==
    /\ \E index \in 0 .. Len(doc) : \E length \in 0 .. Len(doc) - index :
        Becomes(setSelection(Cur, [index |-> index, length |-> length]))
    /\ last' = [op |-> "setSelection"]

Blur ==
    /\ sel # NoSel
    /\ Becomes(setSelection(Cur, NoSel))
    /\ last' = [op |-> "blur"]

Next == WrapSelection \/ InsertText \/ DeleteText \/ SetSelection \/ Blur

Spec == Init /\ [][Next]_vars

\* ------------------------------------------- the editor with the overlay
\* the overlay module was constructed first (GroupsModule found it), so its
\* listeners on the container come before those of GroupsModule
InitDraw ==
    /\ doc = << >>
    /\ objs = [h \in Handles |-> NullObj]
    /\ sel = NoSel
    /\ last = [op |-> "init"]
    /\ overlay = TRUE
    /\ Idle

\* 'mousemove' on quill.container: updatePict, then the listener that
\* stores the position
MouseMove ==
    \E pos \in MousePoints :
        /\ Becomes([updatePict(Cur) EXCEPT !.lastMousePos = pos])
        /\ last' = [op |-> "mouseMove", pos |-> pos]

\* 'scroll' on the editor's scroll node
Scroll ==
    /\ Becomes(updatePict(Cur))
    /\ last' = [op |-> "scroll"]

\* the ResizeObserver of the container
Resize ==
    /\ Becomes(updateSize(Cur))
    /\ last' = [op |-> "resize"]

\* a timer set by the 'text-change' listener runs out
Timer ==
    /\ timers > 0
    /\ Becomes(updatePict([Cur EXCEPT !.timers = @ - 1]))
    /\ last' = [op |-> "timer"]

NextDraw ==
    \/ WrapSelection \/ InsertText \/ DeleteText \/ SetSelection \/ Blur
    \/ MouseMove \/ Scroll \/ Resize \/ Timer

SpecDraw == InitDraw /\ [][NextDraw]_vars

\* the event loop runs every callback that setTimeout( updatePict, 0 ) has
\* queued; the documents of this run have MaxFairLen leaves at most
NextFair == NextDraw /\ Len(doc') <= MaxFairLen

\* Timer is the one action that takes a callback off the queue, so the
\* steps that do are its steps
TimerRuns == timers > 0 /\ timers' = timers - 1

SpecDrawFair == InitDraw /\ [][NextFair]_vars /\ WF_timers(TimerRuns)

\* ------------------------------------------- one group, probed by index
\* a document of one group: a characters, the open grouper, b characters,
\* the close grouper
GroupDoc(a, b) ==
    [k \in 1 .. a + b + 2 |->
        IF k = a + 1 THEN 1 ELSE IF k = a + b + 2 THEN 2 ELSE Text]

InitGroup ==
    /\ \E a \in 0 .. MaxBefore : \E b \in 0 .. MaxInside : doc = GroupDoc(a, b)
    /\ objs = [h \in Handles |->
                IF h = 1 THEN [NullObj EXCEPT !.id = -1]
                ELSE IF h = 2 THEN [NullObj EXCEPT !.id = 1]
                ELSE NullObj]
    /\ sel = NoSel
    /\ last = [op |-> "init"]
    /\ overlay = FALSE
    /\ Idle

\* open.group().relativePosition( index ): the Group constructor looks the
\* partner up, which fills the partner cache
RelativePosition ==
    \E index \in 0 .. Len(doc) + 1 :
        LET open == allGroupers(doc)[1]
            g == Group(Cur, open)
        IN /\ last' = [op |-> "relativePosition", index |-> index,
                       result |-> relativePosition(doc, g, index)]
           /\ objs' = partner(Cur, open).st.objs
           /\ UNCHANGED <<doc, sel, ui>>

NextGroup == RelativePosition

SpecGroup == InitGroup /\ [][NextGroup]_vars

\* ------------------------------------- any valid document, and its queries
\* a document shape says, leaf by leaf, text ("t"), open grouper ("o") or
\* close grouper ("c"); it is balanced when no prefix closes more than it
\* opens and the whole closes all it opens
Count(shape, x, k) == Cardinality({j \in 1 .. k : shape[j] = x})

Balanced(shape) ==
    /\ \A k \in DOMAIN shape : Count(shape, "c", k) <= Count(shape, "o", k)
    /\ Count(shape, "c", Len(shape)) = Count(shape, "o", Len(shape))

\* the open leaf that the close leaf at position k closes
MatchOpen(shape, k) ==
    CHOOSE j \in 1 .. k - 1 :
        /\ shape[j] = "o"
        /\ Count(shape, "o", k) - Count(shape, "o", j)
               = Count(shape, "c", k - 1) - Count(shape, "c", j)
        /\ \A i \in j + 1 .. k - 1 :
               Count(shape, "o", i) - Count(shape, "o", j)
                   >= Count(shape, "c", i) - Count(shape, "c", j)

\* the groupers are numbered in document order, and the groups got their
\* ids from wrapSelection() in the order of their open groupers
ShapeDoc(shape) ==
    [k \in DOMAIN shape |->
        IF shape[k] = "t" THEN Text
        ELSE Count(shape, "o", k) + Count(shape, "c", k)]

ShapeId(shape, k) ==
    IF shape[k] = "o" THEN -Count(shape, "o", k)
    ELSE Count(shape, "o", MatchOpen(shape, k))

ShapeObjs(shape) ==
    [h \in Handles |->
        IF \E k \in DOMAIN shape : ShapeDoc(shape)[k] = h
        THEN LET k == CHOOSE j \in DOMAIN shape : ShapeDoc(shape)[j] = h
             IN [NullObj EXCEPT !.id = ShapeId(shape, k)]
        ELSE NullObj]

InitNav ==
    /\ \E n \in 0 .. MaxNavLen : \E shape \in [1 .. n -> {"t", "o", "c"}] :
        /\ Balanced(shape)
        /\ doc = ShapeDoc(shape)
        /\ objs = ShapeObjs(shape)
    /\ sel = NoSel
    /\ last = [op |-> "init"]
    /\ overlay = FALSE
    /\ Idle

\* the predicates the queries are probed with
Predicates ==
    {p \in [marker : {"open", "close", "any"}, cmp : {"lt", "ge", "any"},
            index : 0 .. MaxNavLen] : p.cmp = "any" => p.index = 0}

\* find( p ), findLast( p ) and findAll( p ) on the same document
Find ==
    \E p \in Predicates :
        /\ last' = [op |-> "find", p |-> p,
                    find |-> find(doc, objs, p),
                    findLast |-> findLast(doc, objs, p),
                    findAll |-> findAll(doc, objs, p)]
        /\ UNCHANGED <<doc, objs, sel, ui>>

\* grouper.group() and one navigation call on it
Navigate ==
    \E h \in {x \in Handles : InDoc(doc, x)} :
    \E q \in {"parent", "previous", "next", "firstChild", "children"} :
        LET G == Group(Cur, h)
            S == made(Cur, G)
            r == CASE q = "parent" -> parent(S, G)
                   [] q = "previous" -> previous(S, G)
                   [] q = "next" -> next(S, G)
                   [] q = "firstChild" -> firstChild(S, G)
                   [] OTHER -> children(S, G)
        IN /\ last' = [op |-> q, of |-> G, result |-> r.res]
           /\ objs' = r.st.objs
           /\ UNCHANGED <<doc, sel, ui>>

\* the module's lookups by id and by index
Lookup ==
    \E q \in {"groupWithId", "groupAround", "groupBefore", "groupAtOrAfter"} :
    \E n \in 0 .. MaxNavLen + 1 :
        LET r == CASE q = "groupWithId" ->
                        [st |-> made(Cur, groupWithId(Cur, n)),
                         res |-> groupWithId(Cur, n)]
                   [] q = "groupAround" -> groupAround(Cur, n)
                   [] q = "groupBefore" -> groupBefore(Cur, n)
                   [] OTHER -> groupAtOrAfter(Cur, n)
        IN /\ last' = [op |-> q, arg |-> n, result |-> r.res]
           /\ objs' = r.st.objs
           /\ UNCHANGED <<doc, sel, ui>>

NextNav == Navigate \/ Lookup

SpecNav == InitNav /\ [][NextNav]_vars

NextFind == Find

SpecFind == InitNav /\ [][NextFind]_vars

\* ------------------------------- any sequence of groupers, balanced or not
\* the open leaf that the close leaf at position k closes, 0 when there is
\* none
MatchOpenIfAny(shape, k) ==
    LET js == {j \in 1 .. k - 1 :
                /\ shape[j] = "o"
                /\ Count(shape, "o", k) - Count(shape, "o", j)
                       = Count(shape, "c", k - 1) - Count(shape, "c", j)
                /\ \A i \in j + 1 .. k - 1 :
                       Count(shape, "o", i) - Count(shape, "o", j)
                           >= Count(shape, "c", i) - Count(shape, "c", j)}
    IN IF js = {} THEN 0 ELSE CHOOSE j \in js : TRUE

\* a close grouper has the id of the group it closes, and an id that no
\* open grouper has when it closes none
AnyId(shape, k) ==
    IF shape[k] = "o" THEN -Count(shape, "o", k)
    ELSE IF MatchOpenIfAny(shape, k) # 0
         THEN Count(shape, "o", MatchOpenIfAny(shape, k))
         ELSE Count(shape, "o", Len(shape)) + Count(shape, "c", k)

AnyObjs(shape) ==
    [h \in Handles |->
        IF \E k \in DOMAIN shape : ShapeDoc(shape)[k] = h
        THEN LET k == CHOOSE j \in DOMAIN shape : ShapeDoc(shape)[j] = h
             IN [NullObj EXCEPT !.id = AnyId(shape, k)]
        ELSE NullObj]

InitIds ==
    /\ \E n \in 0 .. MaxIdsLen : \E shape \in [1 .. n -> {"t", "o", "c"}] :
        /\ doc = ShapeDoc(shape)
        /\ objs = AnyObjs(shape)
    /\ sel = NoSel
    /\ last = [op |-> "init"]
    /\ overlay = FALSE
    /\ Idle

\* idsContaining( index )
IdsContaining ==
    \E index \in 0 .. Len(doc) + 1 :
        /\ last' = [op |-> "idsContaining", index |-> index,
                    result |-> idsContaining(doc, objs, index)]
        /\ UNCHANGED <<doc, objs, sel, ui>>

NextIds == IdsContaining

SpecIds == InitIds /\ [][NextIds]_vars

\* ------------------------------------------------- regions on the screen
\* new ScreenPoint( x, y ) and new ScreenRect( topLeft, bottomRight )
ScreenPoint(x, y) == [x |-> x, y |-> y]

ScreenRect(topLeft, bottomRight) ==
    [topLeft |-> topLeft, bottomRight |-> bottomRight]

\* new ScreenRect( L, T, R, B )
ScreenRectLTRB(l, t, r, b) == ScreenRect(ScreenPoint(l, t), ScreenPoint(r, b))

\* ScreenPoint.relativeTo( reference ): the point, measured from reference
pointRelativeTo(p, reference) ==
    ScreenPoint(p.x - reference.x, p.y - reference.y)

\* ScreenRect.relativeTo( reference )
rectRelativeTo(rect, reference) ==
    ScreenRect(pointRelativeTo(rect.topLeft, reference),
               pointRelativeTo(rect.bottomRight, reference))

\* ScreenRect.contains( screenPoint )
RectContains(rect, screenPoint) ==
    /\ rect.topLeft.x <= screenPoint.x /\ screenPoint.x <= rect.bottomRight.x
    /\ rect.topLeft.y <= screenPoint.y /\ screenPoint.y <= rect.bottomRight.y

Min(a, b) == IF a < b THEN a ELSE b
Max(a, b) == IF a > b THEN a ELSE b

\* pixels by which two lines of text may overlap and still be two lines
epsilon == 3

isRectNoTolerance(rect1, rect2) == rect2.top < rect1.bottom

\* the two nodes are on the same line of text
isRect(rect1, rect2) == rect2.top < rect1.bottom - epsilon

\* new Region( start, end, context ): rect1, rect2 and bounds are the
\* bounding client rectangles of the three nodes, and bounds carries the
\* computed padding-left and padding-right of the context; the fields that
\* the constructor leaves unset are Undefined
Region(rect1, rect2, bounds) ==
    LET reference == ScreenPoint(bounds.left, bounds.top)
        min == Min(rect1.top, rect2.top)
        max == Max(rect1.bottom, rect2.bottom)
    IN IF isRect(rect1, rect2)
       THEN [isRect |-> TRUE,
             bounds |-> rectRelativeTo(
                 ScreenRectLTRB(rect1.left, min, rect2.right, max), reference),
             inset1 |-> Undefined, inset2 |-> Undefined,
             insetRect1 |-> Undefined, insetRect2 |-> Undefined]
       ELSE LET outer == rectRelativeTo(
                    ScreenRectLTRB(bounds.left + bounds.padLeft, min,
                                   bounds.right - bounds.padRight, max),
                    reference)
                inset1 == pointRelativeTo(
                    ScreenPoint(rect1.left, rect1.bottom), reference)
                inset2 == pointRelativeTo(
                    ScreenPoint(rect2.right, rect2.top), reference)
            IN [isRect |-> FALSE,
                bounds |-> outer,
                inset1 |-> inset1, inset2 |-> inset2,
                insetRect1 |-> ScreenRect(outer.topLeft, inset1),
                insetRect2 |-> ScreenRect(inset2, outer.bottomRight)]

RegionContainsBounds(region, screenPoint) ==
    RectContains(region.bounds, screenPoint)

\* Region.contains( screenPoint )
RegionContains(region, screenPoint) ==
    IF region.isRect THEN RectContains(region.bounds, screenPoint)
    ELSE /\ RectContains(region.bounds, screenPoint)
         /\ ~RectContains(region.insetRect1, screenPoint)
         /\ ~RectContains(region.insetRect2, screenPoint)

\* the layouts the regions are built from: the grouper images are
\* MarkerWidth wide and LineHeight tall, the start one on the first line of
\* the context, the end one after it on that line or anywhere on a line
\* that starts 0 .. MaxDrop pixels lower
MarkerWidth == 2
LineHeight == 5

Contexts ==
    {[left |-> 0, top |-> 0, padLeft |-> 0, padRight |-> 0],
     [left |-> 1, top |-> 2, padLeft |-> 1, padRight |-> 0],
     [left |-> 2, top |-> 1, padLeft |-> 0, padRight |-> 1]}

BoxAt(x, y) ==
    [left |-> x, top |-> y, right |-> x + MarkerWidth, bottom |-> y + LineHeight]

ContextBox(c, drop) ==
    [left |-> c.left, top |-> c.top,
     right |-> c.left + c.padLeft + MaxX + MarkerWidth + c.padRight,
     bottom |-> c.top + drop + LineHeight,
     padLeft |-> c.padLeft, padRight |-> c.padRight]

InitRegion ==
    /\ \E c \in Contexts : \E drop \in 0 .. MaxDrop :
       \E a \in 0 .. MaxX : \E b \in 0 .. MaxX :
           LET start == BoxAt(c.left + c.padLeft + a, c.top)
               end == BoxAt(c.left + c.padLeft + b, c.top + drop)
           IN /\ isRect(start, end) => start.right <= end.left
              /\ last = [op |-> "layout", start |-> start, end |-> end,
                         context |-> ContextBox(c, drop)]
    /\ doc = << >>
    /\ objs = [h \in Handles |-> NullObj]
    /\ sel = NoSel
    /\ overlay = FALSE
    /\ Idle

\* the points the regions are probed with, relative to the context
ProbePoints ==
    {ScreenPoint(x, y) : x \in -1 .. MaxX + MarkerWidth + 2,
                         y \in -1 .. MaxDrop + LineHeight + 1}

\* the mouse moves by one pixel, from ( -1, -1 ) at first
Adjacent(p, q) ==
    \/ p.x = q.x /\ (p.y = q.y + 1 \/ p.y = q.y - 1)
    \/ p.y = q.y /\ (p.x = q.x + 1 \/ p.x = q.x - 1)

\* new Region( start, end, context ).contains( point ), as drawGroups()
\* asks for the point the mouse has moved to
Contains ==
    \E point \in ProbePoints :
        LET region == Region(last.start, last.end, last.context)
        IN /\ Adjacent(point, IF last.op = "layout" THEN NoMouse
                                ELSE last.point)
           /\ last' = [op |-> "contains", start |-> last.start,
                       end |-> last.end, context |-> last.context,
                       region |-> region, point |-> point,
                       result |-> RegionContains(region, point)]
           /\ UNCHANGED <<doc, objs, sel, ui>>

NextRegion == Contains

SpecRegion == InitRegion /\ [][NextRegion]_vars

\* ------------------------------------------------ vocabulary of the claims
Markers(d) == {d[k] : k \in {j \in 1 .. Len(d) : IsGrouper(d[j])}}
Opens(d, o) == {h \in Markers(d) : o[h].id < 0}
Closes(d, o) == {h \in Markers(d) : o[h].id > 0}
Pos(d, h) == CHOOSE k \in 1 .. Len(d) : d[k] = h
ClosesOf(d, o, h) == {c \in Markers(d) : o[c].id = -o[h].id}
CloseOf(d, o, h) == CHOOSE c \in ClosesOf(d, o, h) : TRUE
GroupIds(d, o) == {o[h].id : h \in Closes(d, o)}
NextState == [doc |-> doc', objs |-> objs', sel |-> sel']
WrapAccepted == last.op = "wrapSelection" /\ last.ok
WrapRejected == last.op = "wrapSelection" /\ ~last.ok

\* C1: whenever no operation is in progress, every open grouper with id -n
\* has exactly one close grouper with id +n in the document, that close
\* grouper comes later in document order, and no id magnitude is carried by
\* more than two groupers.
C1_Pairing ==
    /\ \A h \in Opens(doc, objs) :
        /\ Cardinality(ClosesOf(doc, objs, h)) = 1
        /\ \A c \in ClosesOf(doc, objs, h) : Pos(doc, c) > Pos(doc, h)
    /\ \A n \in 1 .. MaxLen + 1 :
        Cardinality({h \in Markers(doc) : Abs(objs[h].id) = n}) <= 2

\* a deletion that hit a grouper, with another pair still in the document
C1_Witness ==
    /\ last.op = "deleteText"
    /\ last.hit # {}
    /\ Opens(doc, objs) # {}

\* C2: any two pairs are disjoint or nested; none partially overlap
\* (open1 < open2 < close1 < close2).
C2_WellNested ==
    \A g \in Opens(doc, objs) : \A h \in Opens(doc, objs) :
        \A cg \in ClosesOf(doc, objs, g) : \A ch \in ClosesOf(doc, objs, h) :
            ~(/\ Pos(doc, g) < Pos(doc, h)
              /\ Pos(doc, h) < Pos(doc, cg)
              /\ Pos(doc, cg) < Pos(doc, ch))

\* an accepted wrap that put one pair inside another
C2_Witness ==
    /\ WrapAccepted
    /\ \E g \in Opens(doc, objs) : \E h \in Opens(doc, objs) :
        /\ Pos(doc, g) < Pos(doc, h)
        /\ Pos(doc, CloseOf(doc, objs, h)) < Pos(doc, CloseOf(doc, objs, g))

\* C3: a host deletion that reaches either grouper of a pair, or both,
\* removes both groupers of that pair and no other grouper: the grouper
\* count drops by exactly 2 per pair reached, and the inherited removal ran
\* exactly once on each removed grouper.
C3_Step ==
    last'.op = "deleteText" =>
        LET reached == {Abs(objs[h].id) : h \in last'.hit} IN
        /\ MarkerCount(doc') = MarkerCount(doc) - 2 * Cardinality(reached)
        /\ \A h \in Markers(doc) :
            IF Abs(objs[h].id) \in reached
            THEN ~InDoc(doc', h) /\ objs'[h].removed = 1
            ELSE InDoc(doc', h) /\ objs'[h].removed = 0

C3_PairDeletion == [][C3_Step]_vars

\* one range deletion whose range held both groupers of a pair
C3_Witness ==
    /\ last.op = "deleteText"
    /\ \E h \in last.hit : \E c \in last.hit :
        /\ objs[h].id = -objs[c].id
        /\ objs[h].removed = 1 /\ objs[c].removed = 1
        /\ ~InDoc(doc, h) /\ ~InDoc(doc, c)

\* C4: wrapSelection on a selection whose open-id stack at start differs
\* from the one at start+length changes nothing: document, groupers and
\* selection stay as they were.
C4_Step ==
    (/\ last'.op = "wrapSelection"
     /\ sel # NoSel
     /\ idsContaining(doc, objs, sel.index)
            # idsContaining(doc, objs, sel.index + sel.length)) =>
        /\ doc' = doc
        /\ sel' = sel
        /\ \A h \in Markers(doc) : objs'[h] = objs[h]
        /\ ~last'.ok

C4_StraddleIsNoOp == [][C4_Step]_vars

\* a rejected wrap of a selection with different stacks at its two ends
C4_Witness ==
    /\ WrapRejected
    /\ sel # NoSel
    /\ idsContaining(doc, objs, sel.index)
            # idsContaining(doc, objs, sel.index + sel.length)

\* C5: an accepted wrapSelection of the selection (I, L) makes the document
\* 2 longer, creates a group with beforeOpen = I, afterOpen = I+1 and
\* beforeClose = I+1+L, and leaves the selection at (I+1, L).
C5_Step ==
    (last'.op = "wrapSelection" /\ last'.ok) =>
        LET G == groupWithId(NextState, last'.id)
            ind == indices(doc', G)
        IN /\ Len(doc') = Len(doc) + 2
           /\ last'.id \notin GroupIds(doc, objs)
           /\ G.id = last'.id /\ G.open # 0 /\ G.close # 0
           /\ ind.beforeOpen = sel.index
           /\ ind.afterOpen = sel.index + 1
           /\ ind.beforeClose = sel.index + 1 + sel.length
           /\ sel' = [index |-> sel.index + 1, length |-> sel.length]

C5_WrapPlacesGroup == [][C5_Step]_vars

\* an accepted wrap of a non-collapsed selection away from the start
C5_Witness ==
    /\ WrapAccepted
    /\ sel.length > 0
    /\ sel.index > 1

\* C6: nextAvailableId() is the smallest positive integer that is no
\* group's id; the id an accepted wrapSelection uses is that integer, so it
\* is never an existing group's id, and a freed id is used again when it is
\* the smallest free one.
SmallestFreeId(d, o) ==
    CHOOSE n \in 1 .. MaxLen + 1 :
        /\ n \notin GroupIds(d, o)
        /\ \A m \in 1 .. n - 1 : m \in GroupIds(d, o)

C6_Step ==
    /\ nextAvailableId(doc, objs) = SmallestFreeId(doc, objs)
    /\ (last'.op = "wrapSelection" /\ last'.ok) =>
        /\ last'.id = SmallestFreeId(doc, objs)
        /\ last'.id \notin GroupIds(doc, objs)
        /\ GroupIds(doc', objs') = GroupIds(doc, objs) \cup {last'.id}

Enclosing(d, o, index) ==
    {h \in Opens(d, o) :
        /\ Pos(d, h) - 1 < index
        /\ \E c \in ClosesOf(d, o, h) : Pos(d, c) - 1 >= index}

Depth(d, o, index) == Cardinality(Enclosing(d, o, index))

C7_StackSizeIsDepth ==
    \A index \in 0 .. Len(doc) + 1 :
        Len(idsContaining(doc, objs, index)) = Depth(doc, objs, index)

\* an index inside one group that comes after another, closed group: the
\* stack was pushed, popped and pushed again
C7_Witness ==
    \E index \in 0 .. Len(doc) + 1 :
        /\ Depth(doc, objs, index) = 1
        /\ \E c \in Closes(doc, objs) : Pos(doc, c) - 1 < index

\* C8: idsContaining( index ) is the list of the positive Group ids of the
\* groups that enclose index, outermost first.
C8_IdsOfEnclosingGroups ==
    \A index \in 0 .. Len(doc) + 1 :
        LET ids == idsContaining(doc, objs, index)
            enc == Enclosing(doc, objs, index)
        IN /\ Len(ids) = Cardinality(enc)
           /\ \A k \in 1 .. Len(ids) :
                \E h \in enc :
                    /\ ids[k] = Group(Cur, h).id
                    /\ Cardinality({e \in enc : Pos(doc, e) <= Pos(doc, h)}) = k

\* C9: relativePosition( index ) is 0 before beforeOpen, 1 at beforeOpen,
\* 2 at afterOpen, 3 strictly between afterOpen and beforeClose, 4 at
\* beforeClose, 5 at afterClose and 6 after afterClose.
ClaimedPosition(ind, index) ==
    IF index < ind.beforeOpen THEN 0
    ELSE IF index = ind.beforeOpen THEN 1
    ELSE IF index = ind.afterOpen THEN 2
    ELSE IF index < ind.beforeClose THEN 3
    ELSE IF index = ind.beforeClose THEN 4
    ELSE IF index = ind.afterClose THEN 5
    ELSE 6

C9_RelativePosition ==
    last.op = "relativePosition" =>
        last.result = ClaimedPosition(
            [beforeOpen |-> Pos(doc, 1) - 1, afterOpen |-> Pos(doc, 1),
             beforeClose |-> Pos(doc, 2) - 1, afterClose |-> Pos(doc, 2)],
            last.index)

\* C10: G.contains( other ) holds exactly when other's open index is
\* greater than G's and other's beforeClose is less than G's afterClose; no
\* group contains itself, and no two groups contain each other.
C10_Contains ==
    \A g \in Opens(doc, objs) : \A h \in Opens(doc, objs) :
        LET G == Group(Cur, g)
            H == Group(Cur, h)
        IN /\ contains(doc, G, H) <=>
                (/\ Pos(doc, h) > Pos(doc, g)
                 /\ Pos(doc, CloseOf(doc, objs, h)) - 1
                        < Pos(doc, CloseOf(doc, objs, g)))
           /\ ~contains(doc, G, G)
           /\ ~(contains(doc, G, H) /\ contains(doc, H, G))

\* a group inside another: the outer one contains the inner one
C10_Witness ==
    \E g \in Opens(doc, objs) : \E h \in Opens(doc, objs) :
        /\ g # h
        /\ contains(doc, Group(Cur, g), Group(Cur, h))

\* ---------------------------------------------- the tree the groups form
\* read off the positions of the groupers, without the queries under test
GroupOf(d, o, h) ==
    [open |-> h, close |-> CloseOf(d, o, h), id |-> o[CloseOf(d, o, h)].id,
     threw |-> FALSE]

Around(d, o, g) ==
    {h \in Opens(d, o) :
        /\ Pos(d, h) < Pos(d, g)
        /\ Pos(d, CloseOf(d, o, h)) > Pos(d, CloseOf(d, o, g))}

\* the open grouper of the innermost group around g, 0 when there is none
ParentOf(d, o, g) ==
    IF Around(d, o, g) = {} THEN 0
    ELSE CHOOSE h \in Around(d, o, g) :
            \A k \in Around(d, o, g) : Pos(d, k) <= Pos(d, h)

Siblings(d, o, g) ==
    {h \in Opens(d, o) \ {g} : ParentOf(d, o, h) = ParentOf(d, o, g)}

First(d, hs) == CHOOSE h \in hs : \A k \in hs : Pos(d, h) <= Pos(d, k)
Latest(d, hs) == CHOOSE h \in hs : \A k \in hs : Pos(d, k) <= Pos(d, h)

\* the groups reached from g by 1 .. n applications of parent()
RECURSIVE ParentChain(_, _, _)
ParentChain(S, g, n) ==
    IF n = 0 THEN {}
    ELSE LET p == parent(S, g).res IN
         IF p = NoGroup THEN {} ELSE {p} \cup ParentChain(S, p, n - 1)

\* C11: for every group D, every group G reached from D by one or more
\* applications of parent() contains D; and whenever G.firstChild() returns
\* a group, G contains that group.
C11_AncestorsContain ==
    \A d \in Opens(doc, objs) :
        LET D == Group(Cur, d) IN
        /\ \A G \in ParentChain(Cur, D, MaxNavLen) : contains(doc, G, D)
        /\ firstChild(Cur, D).res # NoGroup =>
               contains(doc, D, firstChild(Cur, D).res)

\* parent() was called on a group, returned a group that itself has a
\* parent, and the group at the top has a first child
C11_Witness ==
    /\ last.op = "parent"
    /\ last.result # NoGroup
    /\ parent(Cur, last.result).res # NoGroup
    /\ firstChild(Cur, parent(Cur, last.result).res).res # NoGroup

\* C12 as stated: G.parent() is the innermost group whose open grouper's
\* index is < G.beforeOpen and whose close grouper's index is > G.afterClose,
\* and is absent exactly when there is no such group.
C12_ParentStrictlyBeyondAfterClose ==
    \A g \in Opens(doc, objs) :
        LET G == Group(Cur, g)
            ind == indices(doc, G)
            cands == {h \in Opens(doc, objs) :
                        /\ getIndex(doc, h) < ind.beforeOpen
                        /\ getIndex(doc, CloseOf(doc, objs, h)) > ind.afterClose}
            p == parent(Cur, G).res
        IN IF cands = {} THEN p = NoGroup
           ELSE p = GroupOf(doc, objs, Latest(doc, cands))

\* C12, amended: G.parent() is the innermost group whose open grouper's
\* index is < G.beforeOpen and whose close grouper's index is >=
\* G.afterClose (that is, > G.beforeClose), and is absent exactly when there
\* is no such group.
C12_ParentIsInnermostAround ==
    \A g \in Opens(doc, objs) :
        LET G == Group(Cur, g)
            ind == indices(doc, G)
            cands == {h \in Opens(doc, objs) :
                        /\ getIndex(doc, h) < ind.beforeOpen
                        /\ getIndex(doc, CloseOf(doc, objs, h)) >= ind.afterClose}
            p == parent(Cur, G).res
        IN IF cands = {} THEN p = NoGroup
           ELSE p = GroupOf(doc, objs, Latest(doc, cands))

\* parent() on a group nested two deep whose close grouper is directly
\* followed by its parent's close grouper
C12_Witness ==
    /\ last.op = "parent"
    /\ last.result # NoGroup
    /\ Cardinality(Around(doc, objs, last.of.open)) = 2
    /\ getIndex(doc, last.result.close) = indices(doc, last.of).afterClose

\* C13: previous() and next() return the nearest sibling: a group other
\* than G with the same parent, entirely before G (previous) or entirely
\* after G (next), with no other sibling between; absent when there is no
\* such sibling.
C13_NearestSiblings ==
    /\ last.op = "previous" =>
        LET g == last.of.open
            before == {h \in Siblings(doc, objs, g) :
                         Pos(doc, CloseOf(doc, objs, h)) < Pos(doc, g)}
        IN IF before = {} THEN last.result = NoGroup
           ELSE last.result = GroupOf(doc, objs, Latest(doc, before))
    /\ last.op = "next" =>
        LET g == last.of.open
            after == {h \in Siblings(doc, objs, g) :
                        Pos(doc, h) > Pos(doc, last.of.close)}
        IN IF after = {} THEN last.result = NoGroup
           ELSE last.result = GroupOf(doc, objs, First(doc, after))

\* C14: firstChild() is the group with the smallest open index >=
\* G.afterOpen if G contains it, and absent otherwise; whenever a group is
\* nested inside G, firstChild() returns the first such group.
C14_FirstChild ==
    last.op = "firstChild" =>
        LET G == last.of
            cands == {h \in Opens(doc, objs) :
                        getIndex(doc, h) >= indices(doc, G).afterOpen}
            inside == {h \in Opens(doc, objs) :
                         contains(doc, G, GroupOf(doc, objs, h))}
        IN /\ IF cands # {}
                   /\ contains(doc, G, GroupOf(doc, objs, First(doc, cands)))
              THEN last.result = GroupOf(doc, objs, First(doc, cands))
              ELSE last.result = NoGroup
           /\ inside # {} => last.result = GroupOf(doc, objs, First(doc, inside))

\* C15: children() returns exactly the groups whose parent is G, each once,
\* in the document order of their open groupers.
C15_Children ==
    last.op = "children" =>
        LET g == last.of.open
            direct == SelectSeq(doc, LAMBDA x :
                        x \in Opens(doc, objs) /\ ParentOf(doc, objs, x) = g)
        IN last.result = [k \in 1 .. Len(direct) |-> GroupOf(doc, objs, direct[k])]

\* C16: for every predicate p, find( p ) is the first element of
\* findAll( p ) and findLast( p ) is its last element, both absent when
\* findAll( p ) is empty; this includes predicates that test the index.
C16_FindMatchesFindAll ==
    last.op = "find" =>
        /\ last.find = IF Len(last.findAll) = 0 THEN 0 ELSE last.findAll[1]
        /\ last.findLast = IF Len(last.findAll) = 0 THEN 0
                           ELSE last.findAll[Len(last.findAll)]

\* C20: every query (groupWithId, groupAround, groupBefore, groupAtOrAfter,
\* parent, previous, next, firstChild, children) completes without an error
\* and returns a group of the document (or a list of them) or the absent
\* value; groupWithId of an unused id, parent() of a top-level group and
\* firstChild() of a group with no group inside return the absent value.
Returned(g) ==
    \/ g = NoGroup
    \/ /\ ~g.threw
       /\ g.open \in Opens(doc, objs)
       /\ g = GroupOf(doc, objs, g.open)

C20_QueriesComplete ==
    /\ last.op \in {"groupWithId", "groupAround", "groupBefore",
                    "groupAtOrAfter", "parent", "previous", "next",
                    "firstChild"} => Returned(last.result)
    /\ last.op \in {"parent", "previous", "next", "firstChild", "children"} =>
        ~last.of.threw
    /\ last.op = "children" =>
        \A k \in 1 .. Len(last.result) :
            last.result[k] # NoGroup /\ Returned(last.result[k])
    /\ (last.op = "groupWithId" /\ last.arg \notin GroupIds(doc, objs)) =>
        last.result = NoGroup
    /\ (last.op = "parent" /\ Around(doc, objs, last.of.open) = {}) =>
        last.result = NoGroup
    /\ (last.op = "firstChild"
            /\ \A h \in Opens(doc, objs) :
                   ~contains(doc, last.of, GroupOf(doc, objs, h))) =>
        last.result = NoGroup

\* groupWithId was asked for an id that no group of the document has, while
\* the document holds groups
C20_Witness ==
    /\ last.op = "groupWithId"
    /\ last.arg \notin GroupIds(doc, objs)
    /\ last.result = NoGroup
    /\ Cardinality(Opens(doc, objs)) >= 2

\* ---------------------------------------------------------- the drawings
PairedIds(seen) ==
    \A k \in DOMAIN seen :
        seen[k] # 0 =>
            /\ Cardinality({j \in DOMAIN seen : seen[j] = -seen[k]}) = 1
            /\ Cardinality({j \in DOMAIN seen : seen[j] = seen[k]}) = 1
            /\ seen[k] < 0 => \E j \in DOMAIN seen : j > k /\ seen[j] = -seen[k]

\* C17: every drawGroups() call, whatever event led to it, reads a
\* document in which every grouper has its partner: never the document
\* between the two insertions of wrapSelection(), nor the one between the
\* removal of a grouper and that of its partner.
C17_DrawsSeeWholePairs ==
    \A k \in DOMAIN draws : PairedIds(draws[k].seen) /\ ~draws[k].threw

\* an accepted wrap: its two insertions each left a timer behind, and its
\* setSelection made the one drawing of this event, with the new pair in it
C17_Witness ==
    /\ WrapAccepted
    /\ timers = 2
    /\ Len(draws) = 1
    /\ \E k \in DOMAIN draws[1].seen : draws[1].seen[k] = last.id

\* C18: every drawGroups() call, the one that a mouse move itself leads to
\* included, reads the position of the most recent mouse move over the
\* container, and (-1,-1) before any mouse move.
C18_DrawsUseLatestMouse ==
    /\ last.op = "mouseMove" => lastMousePos = last.pos
    /\ \A k \in DOMAIN draws : draws[k].mouse = lastMousePos

\* C19: every drawGroups() call strokes the outline of a group exactly
\* when that group is the innermost group around the selection index: of
\* one group at most, and of none when there is no selection or no group
\* is around the selection index.
C19_OutlineIsInnermost ==
    \A k \in DOMAIN draws :
        LET d == draws[k]
            around == IF d.sel = NoSel THEN {}
                      ELSE Enclosing(doc, objs, d.sel.index)
        IN /\ d.seen = Seen(Cur)
           /\ d.outlined = IF around = {} THEN << >>
                           ELSE <<GroupOf(doc, objs, Latest(doc, around))>>

\* a drawing with the selection inside two nested groups
C19_Witness ==
    /\ Len(draws) > 0
    /\ draws[1].sel # NoSel
    /\ Cardinality(Enclosing(doc, objs, draws[1].sel.index)) = 2
    /\ Len(draws[1].outlined) = 1

\* ----------------------------------------------------------- the regions
\* the point of the screen that the probed point of the context is
Absolute(point, context) ==
    ScreenPoint(point.x + context.left, point.y + context.top)

\* the point lies in the rectangle l..r by t..b, its edges included
InBox(p, l, t, r, b) == l <= p.x /\ p.x <= r /\ t <= p.y /\ p.y <= b

\* the point lies in the box of a node, its edges excluded
StrictlyInside(p, box) ==
    /\ box.left < p.x /\ p.x < box.right
    /\ box.top < p.y /\ p.y < box.bottom

\* C21: a Region is rectangular exactly when the top of the end box is
\* less than the bottom of the start box minus 3, and wrapped (with its two
\* insets) otherwise; boxes of top 0, bottom 10 and top 20, bottom 30 give a
\* wrapped region, boxes of top 0, bottom 10 and top 5, bottom 15 a
\* rectangular one.
C21_RectangularIffSameLine ==
    /\ last.op = "contains" =>
        /\ last.region.isRect <=> last.end.top < last.start.bottom - 3
        /\ last.region.isRect <=> last.region.inset1 = Undefined
        /\ last.region.isRect <=> last.region.insetRect2 = Undefined
    /\ \A c \in Contexts :
        LET context == ContextBox(c, 20)
            box(top, bottom) == [left |-> c.left + c.padLeft, top |-> top,
                                 right |-> c.left + c.padLeft + MarkerWidth,
                                 bottom |-> bottom]
        IN /\ ~Region(box(0, 10), box(20, 30), context).isRect
           /\ Region(box(0, 10), box(5, 15), context).isRect

\* a region just wrapped: the lines overlap by exactly 3 pixels
C21_Witness ==
    /\ last.op = "contains"
    /\ ~last.region.isRect
    /\ last.end.top = last.start.bottom - 3

\* C22: a wrapped Region contains a point exactly when the point is in the
\* outer bounds, edges included, and in neither the rectangle from the top
\* left of the bounds to inset1 nor the rectangle from inset2 to the bottom
\* right of the bounds; a rectangular Region contains a point exactly when
\* the point is in its bounds, edges included.
C22_ContainsIsBoundsMinusInsets ==
    last.op = "contains" =>
        LET r == last.region
            p == last.point
            b == r.bounds
            inBounds == InBox(p, b.topLeft.x, b.topLeft.y,
                              b.bottomRight.x, b.bottomRight.y)
        IN IF r.isRect THEN last.result <=> inBounds
           ELSE last.result <=>
                /\ inBounds
                /\ ~InBox(p, b.topLeft.x, b.topLeft.y, r.inset1.x, r.inset1.y)
                /\ ~InBox(p, r.inset2.x, r.inset2.y,
                          b.bottomRight.x, b.bottomRight.y)

\* a point on the right edge of the upper left inset of a wrapped region,
\* which the region does not contain
C22_Witness ==
    /\ last.op = "contains"
    /\ ~last.region.isRect
    /\ last.point.x = last.region.inset1.x
    /\ last.point.y < last.region.inset1.y
    /\ last.point.y > last.region.bounds.topLeft.y
    /\ last.region.bounds.topLeft.x < last.region.inset1.x
    /\ ~last.result

\* C28: a Region contains every point strictly inside the box of its start
\* node and every point strictly inside the box of its end node, whether it
\* is rectangular or wrapped, lines that overlap by 1 to 3 pixels included.
C28_EndpointsInside ==
    last.op = "contains" =>
        LET p == Absolute(last.point, last.context)
        IN StrictlyInside(p, last.start) \/ StrictlyInside(p, last.end)
               => last.result

\* ------------------------------------------------------------ the forest
\* the groups of the document
Groups(S) == {Group(S, h) : h \in Opens(S.doc, S.objs)}

\* g.parent(), its parent() and so on, n times at most
RECURSIVE Ancestors(_, _, _)
Ancestors(S, g, n) ==
    IF n = 0 THEN << >>
    ELSE LET p == parent(S, g).res IN
         IF p = NoGroup THEN << >> ELSE <<p>> \o Ancestors(S, p, n - 1)

\* the groups that contain g with no group in between
DirectlyAround(S, g) ==
    LET above == {P \in Groups(S) : contains(S.doc, P, g)}
    IN {P \in above : ~\E Q \in above : contains(S.doc, P, Q)}

NoRepeats(seq) ==
    \A i \in DOMAIN seq : \A j \in DOMAIN seq : i # j => seq[i] # seq[j]

\* C23: containment is a forest: a group has one parent at most (at most
\* one group contains it with no group in between, and parent() is that
\* group or absent), and parent() applied again and again from any group
\* never comes to a group twice and comes to absent within as many steps as
\* there are groups.
C23_ContainmentIsForest ==
    \A G \in Groups(Cur) :
        LET n == Cardinality(Groups(Cur))
            up == Ancestors(Cur, G, n + 1)
        IN /\ Cardinality(DirectlyAround(Cur, G)) <= 1
           /\ DirectlyAround(Cur, G)
                  = {parent(Cur, G).res} \ {NoGroup}
           /\ Len(up) < n
           /\ NoRepeats(<<G>> \o up)

\* parent() was called on the innermost of three nested groups
C23_Witness ==
    /\ last.op = "parent"
    /\ Len(Ancestors(Cur, last.of, MaxNavLen)) = 2
    /\ DirectlyAround(Cur, last.of) = {last.result}

\* ------------------------------------------------- the loop of children()
\* C30: children() terminates on every valid document: each next() that its
\* loop calls returns absent or a group whose open grouper lies after the
\* close grouper of the child it was called on, so the list it returns has
\* no more entries than there are groups, none of them twice, each opening
\* after the one before it has closed.
C30_ChildrenLoopAdvances ==
    /\ \A G \in Groups(Cur) :
        LET n == next(Cur, G).res IN
        n # NoGroup => getIndex(doc, n.open) > getIndex(doc, G.close)
    /\ last.op = "children" =>
        /\ Len(last.result) <= Cardinality(Groups(Cur))
        /\ NoRepeats(last.result)
        /\ \A k \in 1 .. Len(last.result) - 1 :
               /\ last.result[k + 1] = next(Cur, last.result[k]).res
               /\ getIndex(doc, last.result[k + 1].open)
                      > getIndex(doc, last.result[k].close)

\* children() returned two groups: its loop called next() twice
C30_Witness ==
    /\ last.op = "children"
    /\ Len(last.result) = 2
    /\ next(Cur, last.result[2]).res = NoGroup

\* ------------------------------------------------- the deletion protocol
\* what the deleteAt calls of the latest deletion did on the grouper h
CallsOn(h) == SelectSeq(last.calls, LAMBDA e : e.on = h)

Steps(h) == [k \in DOMAIN CallsOn(h) |-> CallsOn(h)[k].ev]

\* the groupers that a deleteAt call of the latest deletion was made on
Called == {last.calls[k].on : k \in DOMAIN last.calls}

\* C24: the deletion of a grouper ends: the first deleteAt call on a
\* grouper sets its flag, looks up its partner, removes the grouper and calls
\* the partner's deleteAt once at most, in this order; every later call on
\* it finds the flag set and returns at once, removing nothing; and when the
\* calls have ended, the grouper and its partner have each been removed
\* exactly once.
C24_DeletionProtocolEnds ==
    last.op = "deleteText" =>
        /\ last.hit \subseteq Called
        /\ \A h \in Called :
            LET first == SubSeq(Steps(h), 1, 4)
                later == SubSeq(Steps(h), 5, Len(Steps(h)))
            IN /\ \/ first = <<"flag", "partner", "remove", "call">>
                  \/ Steps(h) = <<"flag", "partner", "remove">>
               /\ \A k \in DOMAIN later : later[k] = "skip"
               /\ objs[h].beingDeleted
               /\ objs[h].removed = 1
               /\ ~InDoc(doc, h)
               /\ objs[h].partner # 0 =>
                      /\ objs[h].partner \in Called
                      /\ objs[objs[h].partner].removed = 1
        /\ \A k \in DOMAIN last.calls :
               last.calls[k].ev = "call" =>
                   /\ k < Len(last.calls)
                   /\ last.calls[k + 1].on = objs[last.calls[k].on].partner
        /\ Len(last.calls) <= 5 * Cardinality(Called)

\* both groupers of a pair were in the deleted range: each was removed by
\* the first call on it and then called again, by its partner or by the
\* editor
C24_Witness ==
    /\ last.op = "deleteText"
    /\ Cardinality(last.hit) = 2
    /\ \E h \in last.hit :
        /\ objs[h].partner \in last.hit
        /\ Steps(h) = <<"flag", "partner", "remove", "call", "skip">>
        /\ Steps(objs[h].partner)
               = <<"flag", "partner", "remove", "call", "skip">>

\* ------------------------------------------------------ the partner cache
\* C25: once the partner of a grouper has been removed from the document,
\* partner() on that grouper never returns the removed grouper: it returns
\* absent or a grouper that is in the document.
C25_PartnerNeverRemoved ==
    \A h \in Handles :
        objs[h].id # 0 =>
            LET found == partner([Cur EXCEPT !.objs = objs], h).res
            IN found = 0 \/ InDoc(doc, found)

\* ------------------------------------------------- unbalanced documents
\* the groupers among the leaves a + 1 .. b of the document that are open
\* groupers (open = TRUE) or close groupers (open = FALSE)
Among(a, b, open) ==
    {k \in a + 1 .. b : IsGrouper(doc[k]) /\ isOpen(objs, doc[k]) = open}

\* the open grouper at leaf j is still open after leaf lim: no leaf after
\* it, up to lim, has closed more groups than were opened after j
StillOpen(j, lim) ==
    \A k \in j + 1 .. lim :
        Cardinality(Among(j, k, FALSE)) <= Cardinality(Among(j, k, TRUE))

\* C26: on any sequence of groupers, with a close grouper that closes
\* nothing or an open grouper that is never closed, idsContaining( index )
\* completes and returns what the stack of the groupers before index holds:
\* the ids of the open groupers before index that no close grouper before
\* index has closed, in order, a close grouper on an empty stack leaving it
\* empty.
C26_IdsOnAnySequence ==
    last.op = "idsContaining" =>
        LET lim == IF last.index < Len(doc) THEN last.index ELSE Len(doc)
            open == SelectSeq(SubSeq(doc, 1, lim), LAMBDA x :
                        /\ IsGrouper(x)
                        /\ isOpen(objs, x)
                        /\ StillOpen(Pos(doc, x), lim))
        IN last.result = [k \in 1 .. Len(open) |-> objs[open[k]].id]

\* the document starts with a close grouper, and an open grouper after it
\* is still open at the index asked about
C26_Witness ==
    /\ last.op = "idsContaining"
    /\ Len(doc) > 0 /\ IsGrouper(doc[1]) /\ isClose(objs, doc[1])
    /\ last.index > 1
    /\ Len(last.result) > 0

\* ------------------------------------------------- wrapping twice in a row
\* the group that the latest wrapSelection() created
Wrapped ==
    GroupOf(doc, objs, CHOOSE h \in Opens(doc, objs) : objs[h].id = -last.id)

\* C29: right after an accepted wrapSelection(), before any other event,
\* groupAround( selection.index ) is the group just created, and a second
\* wrapSelection() is accepted and creates another group whose parent() is
\* the group that the first call created.
C29_Step ==
    WrapAccepted =>
        LET again == wrapSelection(Cur)
        IN /\ groupAround(Cur, sel.index).res = Wrapped
           /\ Len(doc) + 2 <= MaxLen =>
                  /\ again.ok
                  /\ again.id # last.id
                  /\ parent(again.st, groupWithId(again.st, again.id)).res
                         = Wrapped
           /\ last'.op = "wrapSelection" =>
                  /\ last'.ok
                  /\ last'.id # last.id
                  /\ parent(NextState, groupWithId(NextState, last'.id)).res
                         = Wrapped

C29_WrapTwiceNests == [][C29_Step]_vars

\* a wrapSelection() has made a group directly inside another one, around
\* the same text, with the selection inside it
C29_Witness ==
    /\ WrapAccepted
    /\ parent(Cur, Wrapped).res # NoGroup
    /\ getIndex(doc, parent(Cur, Wrapped).res.open)
           = getIndex(doc, Wrapped.open) - 1
    /\ getIndex(doc, parent(Cur, Wrapped).res.close)
           = getIndex(doc, Wrapped.close) + 1
    /\ sel.index = getIndex(doc, Wrapped.open) + 1
    /\ sel.length > 0

\* ------------------------------------------------------------ the redraws
\* the draw handler was called on a canvas just cleared and saw the
\* document, the selection and the groupers as the event left them
FreshDraw(d) ==
    /\ d.canvas = << >>
    /\ d.seen = Seen(NextState)

\* the 'text-change' events of the step
TextChanges ==
    CASE last'.op = "insertText" -> 1
      [] last'.op = "deleteText" -> 1
      [] last'.op = "wrapSelection" /\ last'.ok -> 2
      [] OTHER -> 0

C27_Step ==
    /\ last'.op \in {"mouseMove", "scroll", "resize", "timer"} =>
           Len(draws') = 1
    /\ sel' # sel => Len(draws') = 1
    /\ last'.op \notin {"mouseMove", "scroll", "resize", "timer"} /\ sel' = sel
           => Len(draws') = 0
    /\ \A k \in DOMAIN draws' : FreshDraw(draws'[k])
    /\ timers' = timers + TextChanges - (IF last'.op = "timer" THEN 1 ELSE 0)

\* C27: every text change, selection change, mouse move, scroll and resize
\* is followed by a redraw, which clears the canvas and then calls the draw
\* handler once: in the same event for a selection change, a mouse move, a
\* scroll and a resize, and for a text change from a timer that the change
\* sets and that runs later, on the document as it then is.
C27_EveryChangeRedrawn ==
    /\ [][C27_Step]_vars
    /\ (timers > 0) ~> (last.op = "timer" /\ Len(draws) = 1)

\* the timer of a text change has run, after the groupers were inserted,
\* and no timer is left
C27_Witness ==
    /\ last.op = "timer"
    /\ timers = 0
    /\ Len(draws) = 1
    /\ draws[1].canvas = << >>
    /\ \E k \in DOMAIN draws[1].seen : draws[1].seen[k] # 0
====
